---- MODULE Spec2Model ----
(***************************************************************************)
(* Model of the callback package of tencent-im (src/group/api.go, lines    *)
(* 1020-1369): the inbound webhook receiver.  NewCallback, Register,       *)
(* Listen, signCheck, abs, parseCommand, GetQuery and the Ack responder.   *)
(*                                                                         *)
(* Strings that the code parses, formats or hashes (Sign, RequestTime,     *)
(* SdkAppid) are sequences of one-character strings; strings that are only *)
(* compared (commands, messages) are TLA+ strings.                         *)
(***************************************************************************)
EXTENDS Integers, Sequences, FiniteSets, TLC

VARIABLES
    appId,      \* callback.appId
    token,      \* callback.token
    handlers,   \* callback.handlers: a map, a function on the registered events
    mu,         \* callback.mu: the registrar holding the lock, or NoOne
    now,        \* time.Now().Unix()
    crashed,    \* the Go runtime ended the process (fatal error on a racy map access)
    reg,        \* each Register call: its position and arguments
    req,        \* each request slot: the inbound *http.Request, or NoReq
    pc,         \* each request slot: the position of Listen
    loc,        \* each request slot: the locals of Listen
    w,          \* each request slot: what was written to the http.ResponseWriter
    obs,        \* each request slot: what Listen did (history of the call)
    scArgs,     \* a direct call of signCheck: its arguments
    scResult,   \* a direct call of signCheck: its result
    regLog,     \* history: the Register calls that returned, the latest last
    parseArgs,  \* a direct call of parseCommand: its arguments
    parseResult,\* a direct call of parseCommand: its result
    parsePrev,  \* the direct call of parseCommand before it: arguments and result
    api         \* a call of the group API: its position, arguments, requests and result

vars == <<appId, token, handlers, mu, now, crashed, reg, req, pc, loc, w, obs,
          scArgs, scResult, regLog, parseArgs, parseResult, parsePrev, api>>

(***************************************************************************)
(* Bounds of the model.                                                    *)
(***************************************************************************)
\* Width of the model's int64.  TLC's integers are 32 bits wide, so the 64-bit
\* two's complement arithmetic of the source is modelled at this width.
IntBits == 12
\* Number of hex characters of the model's digest (64 in the source).
DigestLen == 4
\* The clock at the start, and how far and how often it advances.
T0 == 1000
ClockStep == 60
MaxTicks == 1
\* How many Ack calls a handler makes at most.
MaxHandlerAcks == 2
\* How many returned Register calls the history keeps.
MaxLog == 2

(***************************************************************************)
(* int64 arithmetic                                                        *)
(***************************************************************************)
MinInt == -(2^(IntBits - 1))
MaxInt == 2^(IntBits - 1) - 1
Int64 == MinInt..MaxInt

\* Two's complement wrap-around of a Go int64 operation.
Wrap(x) == ((x - MinInt) % (2^IntBits)) + MinInt

\* The mathematical absolute value (used by the properties, not by the code).
MathAbs(x) == IF x < 0 THEN -x ELSE x

abs(x) == IF x < 0 THEN Wrap(-x) ELSE x

(***************************************************************************)
(* strconv                                                                 *)
(***************************************************************************)
Digits == <<"0", "1", "2", "3", "4", "5", "6", "7", "8", "9">>
DigitSet == {Digits[i] : i \in 1..10}
DigitVal(c) == (CHOOSE i \in 1..10 : Digits[i] = c) - 1

RECURSIVE FormatNat(_)
FormatNat(n) == IF n < 10 THEN <<Digits[n + 1]>>
                ELSE FormatNat(n \div 10) \o <<Digits[(n % 10) + 1]>>

\* strconv.FormatInt(n, 10) and strconv.Itoa(n)
FormatInt(n) == IF n < 0 THEN <<"-">> \o FormatNat(-n) ELSE FormatNat(n)
Itoa(n) == FormatInt(n)

RECURSIVE ParseNat(_, _)
ParseNat(s, acc) == IF s = <<>> THEN acc
                    ELSE ParseNat(Tail(s), acc * 10 + DigitVal(Head(s)))

\* strconv.ParseInt(s, 10, 64): [err, val].  An optional sign, then one or more
\* decimal digits; a value outside the int64 range is an error.
ParseInt(s) ==
    LET neg == s # <<>> /\ Head(s) = "-"
        signed == s # <<>> /\ Head(s) \in {"-", "+"}
        ds == IF signed THEN Tail(s) ELSE s
    IN  IF ds = <<>> \/ \E i \in 1..Len(ds) : ds[i] \notin DigitSet
        THEN [err |-> TRUE, val |-> 0]
        ELSE LET m == ParseNat(ds, 0)
                 v == IF neg THEN -m ELSE m
             IN  IF v \in Int64 THEN [err |-> FALSE, val |-> v]
                 ELSE [err |-> TRUE, val |-> 0]

(***************************************************************************)
(* crypto/sha256 and encoding/hex.  SHA-256 is modelled by a polynomial    *)
(* hash over the bytes of its input, reduced to DigestLen hex characters.  *)
(***************************************************************************)
Chars == <<"0", "1", "2", "3", "4", "5", "6", "7", "8", "9",
           "a", "b", "c", "d", "e", "f", "A", "B", "C", "D", "E", "F",
           "-", "+", "t", "k", "x", "s">>
CharCode(c) == CHOOSE i \in 1..Len(Chars) : Chars[i] = c

HashSpace == 16^DigestLen

RECURSIVE sha256(_, _)
sha256(data, h) == IF data = <<>> THEN h
                   ELSE sha256(Tail(data), (h * 31 + CharCode(Head(data)) + 7) % HashSpace)

HexDigits == <<"0", "1", "2", "3", "4", "5", "6", "7", "8", "9",
               "a", "b", "c", "d", "e", "f">>

\* hex.EncodeToString: lowercase, a fixed number of characters.
RECURSIVE EncodeToString(_, _)
EncodeToString(n, len) ==
    IF len = 0 THEN <<>>
    ELSE EncodeToString(n \div 16, len - 1) \o <<HexDigits[(n % 16) + 1]>>

\* hex(SHA-256(token || decimal(requestTime))), lines 1164-1167
signStr(requestTime, tok) ==
    EncodeToString(sha256(tok \o FormatInt(requestTime), 0), DigestLen)

(***************************************************************************)
(* signCheck, lines 1157-1173: Nil, or the text of the error.              *)
(***************************************************************************)
Nil == "nil"

signCheck(sign, requestTime, tok, clock) ==
    IF abs(Wrap(clock - requestTime)) >= 60 THEN "request time expired"
    ELSE IF sign # signStr(requestTime, tok) THEN "invalid signature"
    ELSE Nil

(***************************************************************************)
(* Command strings (lines 1042-1065) and Event constants (lines 1067-1090) *)
(***************************************************************************)
commandStateChange == "State.StateChange"
commandBeforeFriendAdd == "Sns.CallbackPrevFriendAdd"
commandBeforeFriendResponse == "Sns.CallbackPrevFriendResponse"
commandAfterFriendAdd == "Sns.CallbackFriendAdd"
commandAfterFriendDelete == "Sns.CallbackFriendDelete"
commandAfterBlacklistAdd == "Sns.CallbackBlackListAdd"
commandAfterBlacklistDelete == "Sns.CallbackBlackListDelete"
commandBeforePrivateMessageSend == "C2C.CallbackBeforeSendMsg"
commandAfterPrivateMessageSend == "C2C.CallbackAfterSendMsg"
commandAfterPrivateMessageReport == "C2C.CallbackAfterMsgReport"
commandAfterPrivateMessageRevoke == "C2C.CallbackAfterMsgWithDraw"
commandBeforeGroupCreate == "Group.CallbackBeforeCreateGroup"
commandAfterGroupCreate == "Group.CallbackAfterCreateGroup"
commandBeforeApplyJoinGroup == "Group.CallbackBeforeApplyJoinGroup"
commandBeforeInviteJoinGroup == "Group.CallbackBeforeInviteJoinGroup"
commandAfterNewMemberJoinGroup == "Group.CallbackAfterNewMemberJoin"
commandAfterMemberExitGroup == "Group.CallbackAfterMemberExit"
commandBeforeGroupMessageSend == "Group.CallbackBeforeSendMsg"
commandAfterGroupMessageSend == "Group.CallbackAfterSendMsg"
commandAfterGroupFull == "Group.CallbackAfterGroupFull"
commandAfterGroupDestroyed == "Group.CallbackAfterGroupDestroyed"
commandAfterGroupInfoChanged == "Group.CallbackAfterGroupInfoChanged"

EventStateChange == 1
EventBeforeFriendAdd == 2
EventBeforeFriendResponse == 3
EventAfterFriendAdd == 4
EventAfterFriendDelete == 5
EventAfterBlacklistAdd == 6
EventAfterBlacklistDelete == 7
EventBeforePrivateMessageSend == 8
EventAfterPrivateMessageSend == 9
EventAfterPrivateMessageReport == 10
EventAfterPrivateMessageRevoke == 11
EventBeforeGroupCreate == 12
EventAfterGroupCreate == 13
EventBeforeApplyJoinGroup == 14
EventBeforeInviteJoinGroup == 15
EventAfterNewMemberJoinGroup == 16
EventAfterMemberExitGroup == 17
EventBeforeGroupMessageSend == 18
EventAfterGroupMessageSend == 19
EventAfterGroupFull == 20
EventAfterGroupDestroyed == 21
EventAfterGroupInfoChanged == 22

Commands == {commandStateChange,
             commandBeforeFriendAdd,
             commandBeforeFriendResponse,
             commandAfterFriendAdd,
             commandAfterFriendDelete,
             commandAfterBlacklistAdd,
             commandAfterBlacklistDelete,
             commandBeforePrivateMessageSend,
             commandAfterPrivateMessageSend,
             commandAfterPrivateMessageReport,
             commandAfterPrivateMessageRevoke,
             commandBeforeGroupCreate,
             commandAfterGroupCreate,
             commandBeforeApplyJoinGroup,
             commandBeforeInviteJoinGroup,
             commandAfterNewMemberJoinGroup,
             commandAfterMemberExitGroup,
             commandBeforeGroupMessageSend,
             commandAfterGroupMessageSend,
             commandAfterGroupFull,
             commandAfterGroupDestroyed,
             commandAfterGroupInfoChanged}
Events == {EventStateChange,
           EventBeforeFriendAdd,
           EventBeforeFriendResponse,
           EventAfterFriendAdd,
           EventAfterFriendDelete,
           EventAfterBlacklistAdd,
           EventAfterBlacklistDelete,
           EventBeforePrivateMessageSend,
           EventAfterPrivateMessageSend,
           EventAfterPrivateMessageReport,
           EventAfterPrivateMessageRevoke,
           EventBeforeGroupCreate,
           EventAfterGroupCreate,
           EventBeforeApplyJoinGroup,
           EventBeforeInviteJoinGroup,
           EventAfterNewMemberJoinGroup,
           EventAfterMemberExitGroup,
           EventBeforeGroupMessageSend,
           EventAfterGroupMessageSend,
           EventAfterGroupFull,
           EventAfterGroupDestroyed,
           EventAfterGroupInfoChanged}

\* The switch with the case of one command copied over the cases after it
commandCaseCopied(command) ==
    IF command = commandStateChange
    THEN [event |-> EventStateChange, shape |-> "StateChange"]
    ELSE IF command \in Commands
    THEN [event |-> EventBeforeFriendAdd, shape |-> "BeforeFriendAdd"]
    ELSE [event |-> 0, shape |-> "nil"]

\* The switch of parseCommand, lines 1248-1317: the event and the payload shape of
\* a command; event 0 for a command of no case.
commandCase(command) ==
    CASE command = commandStateChange ->
             [event |-> EventStateChange, shape |-> "StateChange"]
      [] command = commandBeforeFriendAdd ->
             [event |-> EventBeforeFriendAdd, shape |-> "BeforeFriendAdd"]
      [] command = commandBeforeFriendResponse ->
             [event |-> EventBeforeFriendResponse, shape |-> "BeforeFriendResponse"]
      [] command = commandAfterFriendAdd ->
             [event |-> EventAfterFriendAdd, shape |-> "AfterFriendAdd"]
      [] command = commandAfterFriendDelete ->
             [event |-> EventAfterFriendDelete, shape |-> "AfterFriendDelete"]
      [] command = commandAfterBlacklistAdd ->
             [event |-> EventAfterBlacklistAdd, shape |-> "AfterBlacklistAdd"]
      [] command = commandAfterBlacklistDelete ->
             [event |-> EventAfterBlacklistDelete, shape |-> "AfterBlacklistDelete"]
      [] command = commandBeforePrivateMessageSend ->
             [event |-> EventBeforePrivateMessageSend, shape |-> "BeforePrivateMessageSend"]
      [] command = commandAfterPrivateMessageSend ->
             [event |-> EventAfterPrivateMessageSend, shape |-> "AfterPrivateMessageSend"]
      [] command = commandAfterPrivateMessageReport ->
             [event |-> EventAfterPrivateMessageReport, shape |-> "AfterPrivateMessageReport"]
      [] command = commandAfterPrivateMessageRevoke ->
             [event |-> EventAfterPrivateMessageRevoke, shape |-> "AfterPrivateMessageRevoke"]
      [] command = commandBeforeGroupCreate ->
             [event |-> EventBeforeGroupCreate, shape |-> "BeforeGroupCreate"]
      [] command = commandAfterGroupCreate ->
             [event |-> EventAfterGroupCreate, shape |-> "AfterGroupCreate"]
      [] command = commandBeforeApplyJoinGroup ->
             [event |-> EventBeforeApplyJoinGroup, shape |-> "BeforeApplyJoinGroup"]
      [] command = commandBeforeInviteJoinGroup ->
             [event |-> EventBeforeInviteJoinGroup, shape |-> "BeforeInviteJoinGroup"]
      [] command = commandAfterNewMemberJoinGroup ->
             [event |-> EventAfterNewMemberJoinGroup, shape |-> "AfterNewMemberJoinGroup"]
      [] command = commandAfterMemberExitGroup ->
             [event |-> EventAfterMemberExitGroup, shape |-> "AfterMemberExitGroup"]
      [] command = commandBeforeGroupMessageSend ->
             [event |-> EventBeforeGroupMessageSend, shape |-> "BeforeGroupMessageSend"]
      [] command = commandAfterGroupMessageSend ->
             [event |-> EventAfterGroupMessageSend, shape |-> "AfterGroupMessageSend"]
      [] command = commandAfterGroupFull ->
             [event |-> EventAfterGroupFull, shape |-> "AfterGroupFull"]
      [] command = commandAfterGroupDestroyed ->
             [event |-> EventAfterGroupDestroyed, shape |-> "AfterGroupDestroyed"]
      [] command = commandAfterGroupInfoChanged ->
             [event |-> EventAfterGroupInfoChanged, shape |-> "AfterGroupInfoChanged"]
      [] OTHER -> [event |-> 0, shape |-> "nil"]

(***************************************************************************)
(* encoding/json.  A request body is one of a few JSON texts; a payload is *)
(* the struct of its shape with the decoded GroupId.                       *)
(***************************************************************************)
BodyObject == [kind |-> "object", GroupId |-> "@TGS#1"]   \* {"GroupId":"@TGS#1"}
BodyEmptyObject == [kind |-> "object", GroupId |-> ""]    \* {}
BodyNull == [kind |-> "null", GroupId |-> ""]             \* null
BodyMismatch == [kind |-> "mismatch", GroupId |-> ""]     \* [] : an array for a struct
BodyMalformed == [kind |-> "malformed", GroupId |-> ""]   \* {"GroupId":
JsonTexts == {BodyObject, BodyEmptyObject, BodyNull, BodyMismatch, BodyMalformed}

NilData == [shape |-> "nil", GroupId |-> ""]

\* json.Unmarshal(body, &data), data an interface{} holding a pointer to the struct
\* of the shape (line 1319).  The JSON null sets the interface itself to nil.
Unmarshal(body, shape) ==
    CASE body.kind = "malformed" ->
             [err |-> "unexpected end of JSON input", data |-> NilData]
      [] body.kind = "mismatch" ->
             [err |-> "json: cannot unmarshal array into Go value", data |-> NilData]
      [] body.kind = "null" -> [err |-> Nil, data |-> NilData]
      [] OTHER -> [err |-> Nil, data |-> [shape |-> shape, GroupId |-> body.GroupId]]

\* parseCommand reporting every failure as an invalid command
parseCommandOneError(command, body) ==
    LET sel == commandCase(command)
        u == Unmarshal(body, sel.shape)
    IN  IF sel.event = 0 \/ u.err # Nil
        THEN [event |-> 0, data |-> NilData, err |-> "invalid callback command"]
        ELSE [event |-> sel.event, data |-> u.data, err |-> Nil]

\* parseCommand without the default case of its switch
parseCommandNoDefault(command, body) ==
    LET sel == commandCase(command)
        u == Unmarshal(body, sel.shape)
    IN  IF u.err # Nil THEN [event |-> 0, data |-> NilData, err |-> u.err]
        ELSE [event |-> sel.event, data |-> u.data, err |-> Nil]

\* parseCommand, lines 1247-1324
parseCommand(command, body) ==
    LET sel == commandCase(command)
    IN  IF sel.event = 0
        THEN [event |-> 0, data |-> NilData, err |-> "invalid callback command"]
        ELSE LET u == Unmarshal(body, sel.shape)
             IN  IF u.err # Nil THEN [event |-> 0, data |-> NilData, err |-> u.err]
                 ELSE [event |-> sel.event, data |-> u.data, err |-> Nil]

(***************************************************************************)
(* Query parameters, lines 1099-1105, and GetQuery, lines 1327-1333.       *)
(* r.URL.Query() maps a key to the list of its values, in URL order.       *)
(***************************************************************************)
queryAppId == "SdkAppid"
queryCommand == "CallbackCommand"
querySignRequestTime == "RequestTime"
querySign == "Sign"
QueryKeys == {queryAppId, queryCommand, querySignRequestTime, querySign}

\* The lookup returning the last value of a repeated key
GetQueryLast(r, key) ==
    IF Len(r.query[key]) > 0
    THEN [val |-> r.query[key][Len(r.query[key])], ok |-> TRUE]
    ELSE [val |-> <<>>, ok |-> FALSE]

\* GetQuery, lines 1327-1333: the first value of the key, or "" and false
GetQuery(r, key) ==
    IF Len(r.query[key]) > 0
    THEN [val |-> r.query[key][1], ok |-> TRUE]
    ELSE [val |-> <<>>, ok |-> FALSE]

(***************************************************************************)
(* The Ack responder, lines 1092-1097 and 1335-1369.  A ResponseWriter is  *)
(* the sequence of the writes made to it.                                  *)
(***************************************************************************)
ackSuccessStatus == "OK"
ackFailureStatus == "FAIL"
ackSuccessCode == 0
ackFailureCode == 1
StatusOK == 200

\* BaseResp{}: the zero value of the envelope
BaseResp == [ActionStatus |-> "", ErrorCode |-> 0, ErrorInfo |-> ""]

\* json.Marshal of a BaseResp: the envelope of the provider's protocol,
\* ActionStatus and ErrorCode always, ErrorInfo when it is not empty.
Marshal(resp) ==
    "{\"ActionStatus\":\"" \o resp.ActionStatus \o "\",\"ErrorCode\":"
        \o ToString(resp.ErrorCode)
        \o (IF resp.ErrorInfo = "" THEN "" ELSE ",\"ErrorInfo\":\"" \o resp.ErrorInfo \o "\"")
        \o "}"

\* newAck, lines 1335-1337: a fresh writer, nothing written
newAck == <<>>

\* Ack writing a client-error status for a failure envelope
AckStatusByOutcome(a, resp) ==
    Append(a, [status |-> IF resp.ActionStatus = ackFailureStatus THEN 400 ELSE StatusOK,
               body |-> Marshal(resp), resp |-> resp])

\* ack.Ack, lines 1340-1345: WriteHeader(200), then Write(b)
Ack(a, resp) == Append(a, [status |-> StatusOK, body |-> Marshal(resp), resp |-> resp])

\* ack.AckFailure, lines 1348-1357; message is the variadic argument list
AckFailure(a, message) ==
    Ack(a, [BaseResp EXCEPT !.ActionStatus = ackFailureStatus,
                            !.ErrorCode = ackFailureCode,
                            !.ErrorInfo = IF Len(message) > 0 THEN message[1] ELSE @])

\* AckSuccess answering as AckFailure does
AckSuccessAsFailure(a, code, message) == AckFailure(a, message)

\* ack.AckSuccess, lines 1360-1369
AckSuccess(a, code, message) ==
    Ack(a, [BaseResp EXCEPT !.ActionStatus = ackSuccessStatus,
                            !.ErrorCode = code,
                            !.ErrorInfo = IF Len(message) > 0 THEN message[1] ELSE @])

(***************************************************************************)
(* The processes and the values of the model.                              *)
(***************************************************************************)
Reqs == {"r1", "r2"}           \* request slots: goroutines of the HTTP server
OneReq == {"r1"}               \* the slot used when one request is in flight
Regs == {"g1"}                 \* goroutines calling Register
NoOne == "none"
NoReq == [query |-> [k \in QueryKeys |-> <<>>], body |-> [err |-> Nil, json |-> BodyNull]]

HandlerFuncs == {"H1", "H2"}   \* the EventHandlerFunc values of the application
NoHandler == "nil"
RegEvents == {EventAfterGroupCreate, EventStateChange}   \* events the application registers

EmptyString == <<>>
Tk == <<"t", "k">>

\* The constructor keeping the last token supplied
NewCallbackLastToken(id, tok) ==
    [appId |-> id,
     token |-> IF Len(tok) > 0 THEN tok[Len(tok)] ELSE EmptyString,
     handlers |-> <<>>]

\* NewCallback, lines 1143-1152; tok is the variadic token list
NewCallback(id, tok) ==
    [appId |-> id,
     token |-> IF Len(tok) > 0 THEN tok[1] ELSE EmptyString,
     handlers |-> <<>>]

AppIds == {140000000}
TokenArgs == {<<>>, <<EmptyString>>, <<Tk>>, <<Tk, <<"s">>>>}

(***************************************************************************)
(* The inbound requests.                                                   *)
(***************************************************************************)
Offsets == {0, 59, -59, 60, -60, 61, -61}

\* RequestTime values around the clock, one at the distance that wraps around,
\* and texts that are not canonical decimals.
TimeTexts(clock) ==
    {FormatInt(clock + d) : d \in Offsets}
        \cup {FormatInt(Wrap(clock + MinInt))}
        \cup {<<"+">> \o FormatNat(clock), <<"0">> \o FormatNat(clock),
              <<"x">>, EmptyString, <<"9", "9", "9", "9", "9", "9">>}

Upper(s) == [i \in 1..Len(s) |->
                CASE s[i] = "a" -> "A" [] s[i] = "b" -> "B" [] s[i] = "c" -> "C"
                  [] s[i] = "d" -> "D" [] s[i] = "e" -> "E" [] s[i] = "f" -> "F"
                  [] OTHER -> s[i]]

\* s with its i-th character replaced by another hex character
OneCharOff(s, i) == [s EXCEPT ![i] = IF @ = "0" THEN "1" ELSE "0"]

\* The digest a signer computes for a RequestTime text
GoodSign(text, tok) ==
    LET p == ParseInt(text) IN signStr(IF p.err THEN 0 ELSE p.val, tok)

SignTexts(text, tok) ==
    LET good == GoodSign(text, tok)
    IN  {good, Upper(good), EmptyString,
         EncodeToString(sha256(tok \o text, 0), DigestLen)}
            \cup {OneCharOff(good, i) : i \in {1, DigestLen}}

Lists(S) == {<<>>} \cup {<<v>> : v \in S}

Request(sign, time, app, cmd, body) ==
    [query |-> (querySign :> sign) @@ (querySignRequestTime :> time)
                 @@ (queryAppId :> app) @@ (queryCommand :> cmd),
     body |-> body]

GoodBody == [err |-> Nil, json |-> BodyObject]
BodyReads == {[err |-> Nil, json |-> j] : j \in JsonTexts}
                \cup {[err |-> "unexpected EOF", json |-> BodyMalformed]}

AppTexts(id) == {Itoa(id), <<"9", "9", "9">>, EmptyString, <<"0">> \o Itoa(id)}
AppLists(id) == Lists(AppTexts(id))
                    \cup {<<Itoa(id), <<"9", "9", "9">>>>, <<<<"9", "9", "9">>, Itoa(id)>>}

CommandLists ==
    Lists({"", "Group.Unknown", "group.callbackaftercreategroup",
           commandAfterGroupCreate, commandStateChange, commandAfterGroupFull})
        \cup {<<"Group.Unknown", commandAfterGroupCreate>>}

\* Requests that vary the signature parameters.  Without a token the
\* parameters are varied in presence and value only.
SignPairs(tok, clock) ==
    LET t0 == FormatInt(clock)
    IN  IF tok = EmptyString
        THEN {<<<<>>, <<t0>>>>, <<<<GoodSign(t0, Tk)>>, <<>>>>,
              <<<<GoodSign(t0, Tk)>>, <<t0>>>>, <<<<EmptyString>>, <<<<"x">>>>>>}
        ELSE {<<s, t>> : s \in {<<>>, <<GoodSign(t0, tok)>>}, t \in {<<>>}}
               \cup UNION {{<<s, <<t>>>> :
                              s \in {<<>>, <<GoodSign(t, tok)>>,
                                     <<OneCharOff(GoodSign(t, tok), 1)>>}} :
                           t \in TimeTexts(clock)}
               \cup UNION {{<<s, <<t>>>> :
                              s \in Lists(SignTexts(t, tok))
                                    \cup {<<GoodSign(t, tok), EmptyString>>,
                                          <<EmptyString, GoodSign(t, tok)>>}} :
                           t \in {t0, FormatInt(clock - 60)}}

SignRequests(id, tok, clock) ==
    {Request(p[1], p[2], app, <<commandAfterGroupCreate>>, GoodBody) :
        p \in SignPairs(tok, clock), app \in {<<Itoa(id)>>, <<<<"9", "9", "9">>>>}}

\* Requests that vary the parameters read after the signature
PlainRequests(id, tok, clock) ==
    LET t0 == FormatInt(clock)
        p == IF tok = EmptyString THEN <<<<>>, <<>>>>
             ELSE <<<<GoodSign(t0, tok)>>, <<t0>>>>
    IN  {Request(p[1], p[2], app, cmd, GoodBody) :
            app \in AppLists(id),
            cmd \in {<<commandAfterGroupCreate>>, <<"Group.Unknown">>, <<>>}}
        \cup {Request(p[1], p[2], <<Itoa(id)>>, cmd, GoodBody) : cmd \in CommandLists}
        \cup {Request(p[1], p[2], <<Itoa(id)>>, cmd, body) :
                cmd \in {<<commandAfterGroupCreate>>, <<"Group.Unknown">>},
                body \in BodyReads}

Requests(id, tok, clock) == SignRequests(id, tok, clock) \cup PlainRequests(id, tok, clock)

(***************************************************************************)
(* State                                                                   *)
(***************************************************************************)
NoLoc == [command |-> "", body |-> BodyNull, event |-> 0, data |-> NilData, fn |-> NoHandler]
NoObs == [consulted |-> {}, signChecked |-> FALSE, clock |-> 0, bodyRead |-> FALSE,
          bodyClosed |-> FALSE, parsed |-> FALSE, parseErr |-> Nil, looked |-> FALSE,
          raced |-> FALSE, cands |-> {}, foreign |-> FALSE, invoked |-> <<>>, steps |-> <<>>]
IdleReg == [pc |-> "idle", event |-> 0, handler |-> NoHandler]

NoArgs == [sign |-> EmptyString, requestTime |-> 0, token |-> EmptyString, clock |-> 0]
NoParseArgs == [command |-> "", body |-> BodyNull]
\* The result of a direct call, with the position of the call
ParseState(at, res) == [pc |-> at, event |-> res.event, data |-> res.data, err |-> res.err]
NoParseResult == [event |-> 0, data |-> NilData, err |-> Nil]
NoParsePrev == [args |-> NoParseArgs, result |-> ParseState("idle", NoParseResult)]
\* No call of the group API made yet
NoApiArgs == [groupId |-> "", filter |-> <<>>, limit |-> 0, next |-> 0, groupTypeAndFilter |-> <<>>]
NoApiCall ==
    [op |-> "none", pc |-> "idle", args |-> NoApiArgs,
     posts |-> <<>>, resps |-> <<>>, ret |-> <<>>, err |-> Nil]
NoParseCall ==
    /\ parseArgs = NoParseArgs
    /\ parseResult = ParseState("idle", NoParseResult)
    /\ parsePrev = NoParsePrev

Init ==
    /\ \E id \in AppIds, tok \in TokenArgs :
          LET c == NewCallback(id, tok)
          IN  /\ appId = c.appId
              /\ token = c.token
              /\ handlers = c.handlers
    /\ mu = NoOne
    /\ now = T0
    /\ crashed = FALSE
    /\ reg = [g \in Regs |-> IdleReg]
    /\ req = [r \in Reqs |-> NoReq]
    /\ pc = [r \in Reqs |-> "idle"]
    /\ loc = [r \in Reqs |-> NoLoc]
    /\ w = [r \in Reqs |-> <<>>]
    /\ obs = [r \in Reqs |-> NoObs]
    /\ scArgs = NoArgs
    /\ scResult = "idle"
    /\ regLog = <<>>
    /\ NoParseCall
    /\ api = NoApiCall

callbackVars == <<appId, token>>
auxVars == <<scArgs, scResult, regLog, parseArgs, parseResult, parsePrev, api>>

(***************************************************************************)
(* Register, lines 1184-1188                                               *)
(***************************************************************************)
\* c.handlers[event]: the handler and whether the key is in the map
Lookup(h, event) ==
    IF event \in DOMAIN h THEN [fn |-> h[event], ok |-> TRUE]
    ELSE [fn |-> NoHandler, ok |-> FALSE]

InFlight(event) ==
    {reg[g].handler : g \in {x \in Regs : reg[x].pc # "idle" /\ reg[x].event = event}}

\* A map assignment that keeps an entry already present
MapAssignKeepFirst(h, event, handler) ==
    IF event \in DOMAIN h THEN h
    ELSE [e \in DOMAIN h \cup {event} |-> IF e = event THEN handler ELSE h[e]]

\* A map assignment that builds the map anew from the one entry
MapAssignClearOthers(h, event, handler) == [e \in {event} |-> handler]

\* c.handlers[event] = handler, line 1186
MapAssign(h, event, handler) ==
    [e \in DOMAIN h \cup {event} |-> IF e = event THEN handler ELSE h[e]]

\* Register(event, handler) is called and takes the lock: c.mu.Lock(), line 1185
RegisterLock(g) ==
    /\ ~crashed
    /\ reg[g].pc = "idle"
    /\ mu = NoOne
    /\ mu' = g
    /\ \E e \in RegEvents, h \in HandlerFuncs :
          /\ reg' = [reg EXCEPT ![g] = [pc |-> "locked", event |-> e, handler |-> h]]
          /\ obs' = [r \in Reqs |->
                        IF pc[r] = "reading" /\ loc[r].event = e
                        THEN [obs[r] EXCEPT !.cands = @ \cup {h}]
                        ELSE obs[r]]
    /\ UNCHANGED <<callbackVars, handlers, now, crashed, req, pc, loc, w, auxVars>>

\* line 1186: the map write begins; it is not atomic
RegisterWriteBegin(g) ==
    /\ ~crashed
    /\ reg[g].pc = "locked"
    /\ reg' = [reg EXCEPT ![g].pc = "writing"]
    /\ obs' = [r \in Reqs |->
                  IF pc[r] = "reading" THEN [obs[r] EXCEPT !.raced = TRUE] ELSE obs[r]]
    /\ UNCHANGED <<callbackVars, handlers, mu, now, crashed, req, pc, loc, w, auxVars>>

\* line 1186: the map write is complete
RegisterWriteEnd(g) ==
    /\ ~crashed
    /\ reg[g].pc = "writing"
    /\ handlers' = MapAssign(handlers, reg[g].event, reg[g].handler)
    /\ reg' = [reg EXCEPT ![g].pc = "written"]
    /\ UNCHANGED <<callbackVars, mu, now, crashed, req, pc, loc, w, obs, auxVars>>

\* c.mu.Unlock(), line 1187, and the return
Unlock(g) ==
    /\ ~crashed
    /\ reg[g].pc = "written"
    /\ mu' = NoOne
    /\ reg' = [reg EXCEPT ![g] = IdleReg]
    /\ UNCHANGED <<callbackVars, handlers, now, crashed, req, pc, loc, w, obs,
                   scArgs, scResult, parseArgs, parseResult, parsePrev, api>>

RegisterUnlock(g) == Unlock(g) /\ UNCHANGED regLog

\* The same, with the returned call entered in the history (the last MaxLog calls)
LastCalls(log) == IF Len(log) > MaxLog THEN Tail(log) ELSE log

RegisterUnlockLogged(g) ==
    /\ Unlock(g)
    /\ regLog' = LastCalls(Append(regLog, [event |-> reg[g].event,
                                            handler |-> reg[g].handler]))

(***************************************************************************)
(* Listen, lines 1191-1244, one action for each of its steps               *)
(***************************************************************************)
Note(r, step) == [obs[r] EXCEPT !.steps = Append(@, step)]

\* The HTTP server hands a request to Listen; a := newAck(w), line 1192
Accept(r) ==
    /\ ~crashed
    /\ pc[r] = "idle"
    /\ \E q \in Requests(appId, token, now) : req' = [req EXCEPT ![r] = q]
    /\ pc' = [pc EXCEPT ![r] = "sign"]
    /\ loc' = [loc EXCEPT ![r] = NoLoc]
    /\ w' = [w EXCEPT ![r] = newAck]
    /\ obs' = [obs EXCEPT ![r] = NoObs]
    /\ UNCHANGED <<callbackVars, handlers, mu, now, crashed, reg, auxVars>>

\* Lines 1195-1213, the body of "if c.token != """: what was read, whether
\* signCheck was called, and the message of the failure (Nil for none)
verifySignature(r, tok, clock) ==
    LET s == GetQuery(r, querySign)
        t == GetQuery(r, querySignRequestTime)
        p == ParseInt(t.val)
    IN  IF ~s.ok THEN [consulted |-> {querySign}, called |-> FALSE, err |-> "invalid sign"]
        ELSE IF ~t.ok
        THEN [consulted |-> {querySign, querySignRequestTime}, called |-> FALSE,
              err |-> "invalid request time"]
        ELSE IF p.err
        THEN [consulted |-> {querySign, querySignRequestTime}, called |-> FALSE,
              err |-> "parse request time err"]
        ELSE [consulted |-> {querySign, querySignRequestTime}, called |-> TRUE,
              err |-> signCheck(s.val, p.val, tok, clock)]

\* The signature block entered whatever the token
tokenConfiguredAlways(tok) == TRUE

\* c.token != "", line 1194
tokenConfigured(tok) == tok # EmptyString

\* Lines 1194-1214
VerifySignature(r) ==
    /\ ~crashed
    /\ pc[r] = "sign"
    /\ IF tokenConfigured(token)
       THEN LET v == verifySignature(req[r], token, now)
            IN  /\ obs' = [obs EXCEPT ![r] =
                             [Note(r, "sign") EXCEPT !.consulted = @ \cup v.consulted,
                                                     !.signChecked = v.called,
                                                     !.clock = now]]
                /\ IF v.err # Nil
                   THEN /\ w' = [w EXCEPT ![r] = AckFailure(@, <<v.err>>)]
                        /\ pc' = [pc EXCEPT ![r] = "done"]
                   ELSE /\ w' = w
                        /\ pc' = [pc EXCEPT ![r] = "appid"]
       ELSE /\ pc' = [pc EXCEPT ![r] = "appid"]
            /\ UNCHANGED <<w, obs>>
    /\ UNCHANGED <<callbackVars, handlers, mu, now, crashed, reg, req, loc, auxVars>>

\* The app-id test passing whatever the parameter
appIdMatchesAlways(q, id) == TRUE

\* ok && appId == strconv.Itoa(c.appId), line 1216
appIdMatches(q, id) == q.ok /\ q.val = Itoa(id)

\* The app-id step writing its failure to the writer of any request in flight
VerifyAppIdSharedAck(r) ==
    /\ ~crashed
    /\ pc[r] = "appid"
    /\ obs' = [obs EXCEPT ![r] = [Note(r, "appid") EXCEPT !.consulted = @ \cup {queryAppId}]]
    /\ IF ~appIdMatches(GetQuery(req[r], queryAppId), appId)
       THEN /\ \E o \in Reqs : w' = [w EXCEPT ![o] = AckFailure(@, <<"invalid sdk appId">>)]
            /\ pc' = [pc EXCEPT ![r] = "done"]
       ELSE /\ w' = w
            /\ pc' = [pc EXCEPT ![r] = "command"]
    /\ UNCHANGED <<callbackVars, handlers, mu, now, crashed, reg, req, loc, auxVars>>

\* Lines 1215-1219
VerifyAppId(r) ==
    /\ ~crashed
    /\ pc[r] = "appid"
    /\ obs' = [obs EXCEPT ![r] = [Note(r, "appid") EXCEPT !.consulted = @ \cup {queryAppId}]]
    /\ IF ~appIdMatches(GetQuery(req[r], queryAppId), appId)
       THEN /\ w' = [w EXCEPT ![r] = AckFailure(@, <<"invalid sdk appId">>)]
            /\ pc' = [pc EXCEPT ![r] = "done"]
       ELSE /\ w' = w
            /\ pc' = [pc EXCEPT ![r] = "command"]
    /\ UNCHANGED <<callbackVars, handlers, mu, now, crashed, reg, req, loc, auxVars>>

\* The command step going on to parseCommand with the body as sent, unread
VerifyCommandThenParse(r) ==
    /\ ~crashed
    /\ pc[r] = "command"
    /\ obs' = [obs EXCEPT ![r] = [Note(r, "command") EXCEPT !.consulted = @ \cup {queryCommand}]]
    /\ LET q == GetQuery(req[r], queryCommand)
       IN  IF ~q.ok
           THEN /\ w' = [w EXCEPT ![r] = AckFailure(@, <<"invalid callback command">>)]
                /\ pc' = [pc EXCEPT ![r] = "done"]
                /\ loc' = loc
           ELSE /\ w' = w
                /\ pc' = [pc EXCEPT ![r] = "parse"]
                /\ loc' = [loc EXCEPT ![r].command = q.val, ![r].body = req[r].body.json]
    /\ UNCHANGED <<callbackVars, handlers, mu, now, crashed, reg, req, auxVars>>

\* Lines 1221-1225
VerifyCommand(r) ==
    /\ ~crashed
    /\ pc[r] = "command"
    /\ obs' = [obs EXCEPT ![r] = [Note(r, "command") EXCEPT !.consulted = @ \cup {queryCommand}]]
    /\ LET q == GetQuery(req[r], queryCommand)
       IN  IF ~q.ok
           THEN /\ w' = [w EXCEPT ![r] = AckFailure(@, <<"invalid callback command">>)]
                /\ pc' = [pc EXCEPT ![r] = "done"]
                /\ loc' = loc
           ELSE /\ w' = w
                /\ pc' = [pc EXCEPT ![r] = "body"]
                /\ loc' = [loc EXCEPT ![r].command = q.val]
    /\ UNCHANGED <<callbackVars, handlers, mu, now, crashed, reg, req, auxVars>>

\* The body step closing the body only after a read without error
ReadBodyCloseOnSuccess(r) ==
    /\ ~crashed
    /\ pc[r] = "body"
    /\ obs' = [obs EXCEPT ![r] = [Note(r, "body") EXCEPT !.bodyRead = TRUE,
                                                         !.bodyClosed = req[r].body.err = Nil]]
    /\ loc' = [loc EXCEPT ![r].body = req[r].body.json]
    /\ IF req[r].body.err # Nil
       THEN /\ w' = [w EXCEPT ![r] = AckFailure(@, <<req[r].body.err>>)]
            /\ pc' = [pc EXCEPT ![r] = "done"]
       ELSE /\ w' = w
            /\ pc' = [pc EXCEPT ![r] = "parse"]
    /\ UNCHANGED <<callbackVars, handlers, mu, now, crashed, reg, req, auxVars>>

\* Lines 1227-1232: ioutil.ReadAll(r.Body), r.Body.Close()
ReadBody(r) ==
    /\ ~crashed
    /\ pc[r] = "body"
    /\ obs' = [obs EXCEPT ![r] = [Note(r, "body") EXCEPT !.bodyRead = TRUE,
                                                         !.bodyClosed = TRUE]]
    /\ loc' = [loc EXCEPT ![r].body = req[r].body.json]
    /\ IF req[r].body.err # Nil
       THEN /\ w' = [w EXCEPT ![r] = AckFailure(@, <<req[r].body.err>>)]
            /\ pc' = [pc EXCEPT ![r] = "done"]
       ELSE /\ w' = w
            /\ pc' = [pc EXCEPT ![r] = "parse"]
    /\ UNCHANGED <<callbackVars, handlers, mu, now, crashed, reg, req, auxVars>>

\* Lines 1234-1236
ParseCommand(r) ==
    /\ ~crashed
    /\ pc[r] = "parse"
    /\ LET res == parseCommand(loc[r].command, loc[r].body)
       IN  /\ obs' = [obs EXCEPT ![r] = [Note(r, "parse") EXCEPT !.parsed = TRUE,
                                                                 !.parseErr = res.err]]
           /\ IF res.err # Nil
              THEN /\ w' = [w EXCEPT ![r] = AckFailure(@, <<res.err>>)]
                   /\ pc' = [pc EXCEPT ![r] = "done"]
                   /\ loc' = loc
              ELSE /\ w' = w
                   /\ pc' = [pc EXCEPT ![r] = "lookup"]
                   /\ loc' = [loc EXCEPT ![r].event = res.event, ![r].data = res.data]
    /\ UNCHANGED <<callbackVars, handlers, mu, now, crashed, reg, req, auxVars>>

\* What the read of c.handlers[event] at line 1237 can return.  Listen takes no
\* lock: a read that overlaps the map write of a Register is a data race, and the
\* Go runtime then either ends the process (LookupFatal), or the read returns the
\* entry from before the write, the entry being written, or misses the key.
LookupResults(r) ==
    IF obs[r].raced
    THEN {[fn |-> h, ok |-> TRUE] : h \in obs[r].cands \ {NoHandler}}
            \cup {[fn |-> NoHandler, ok |-> FALSE]}
    ELSE {Lookup(handlers, loc[r].event)}

\* Line 1237: the read of the map begins
LookupBegin(r) ==
    /\ ~crashed
    /\ pc[r] = "lookup"
    /\ pc' = [pc EXCEPT ![r] = "reading"]
    /\ obs' = [obs EXCEPT ![r] =
                 [Note(r, "lookup") EXCEPT
                     !.raced = \E g \in Regs : reg[g].pc = "writing",
                     !.cands = {Lookup(handlers, loc[r].event).fn}
                                  \cup InFlight(loc[r].event)]]
    /\ UNCHANGED <<callbackVars, handlers, mu, now, crashed, reg, req, loc, w, auxVars>>

\* Lines 1237-1242: the read of the map ends; the handler is called, or Listen
\* answers AckSuccess(ackSuccessCode)
LookupEnd(r) ==
    /\ ~crashed
    /\ pc[r] = "reading"
    /\ \E res \in LookupResults(r) :
          IF res.ok
          THEN /\ loc' = [loc EXCEPT ![r].fn = res.fn]
               /\ pc' = [pc EXCEPT ![r] = "handler"]
               /\ obs' = [obs EXCEPT ![r] =
                            [@ EXCEPT !.looked = TRUE,
                                      !.foreign = res.fn \notin obs[r].cands,
                                      !.cands = {},
                                      !.raced = FALSE,
                                      !.invoked = Append(@, [fn |-> res.fn,
                                                             data |-> loc[r].data])]]
               /\ w' = w
          ELSE /\ loc' = loc
               /\ pc' = [pc EXCEPT ![r] = "done"]
               /\ obs' = [obs EXCEPT ![r] =
                            [@ EXCEPT !.looked = TRUE,
                                      !.foreign = res.fn \notin obs[r].cands,
                                      !.cands = {},
                                      !.raced = FALSE]]
               /\ w' = [w EXCEPT ![r] = AckSuccess(@, ackSuccessCode, <<>>)]
    /\ UNCHANGED <<callbackVars, handlers, mu, now, crashed, reg, req, auxVars>>

\* Line 1237 under a data race: "fatal error: concurrent map read and map write"
LookupFatal(r) ==
    /\ ~crashed
    /\ pc[r] = "reading"
    /\ obs[r].raced
    /\ crashed' = TRUE
    /\ UNCHANGED <<callbackVars, handlers, mu, now, reg, req, pc, loc, w, obs, auxVars>>

(***************************************************************************)
(* The handler of the application, called at line 1238 with the request's  *)
(* Ack: it calls the Ack methods it likes, then returns.                   *)
(***************************************************************************)
CustomResp == [ActionStatus |-> "OK", ErrorCode |-> 0, ErrorInfo |-> "custom"]

HandlerAck(r) ==
    /\ ~crashed
    /\ pc[r] = "handler"
    /\ Len(w[r]) < MaxHandlerAcks
    /\ \E a \in {AckSuccess(w[r], ackSuccessCode, <<>>),
                 AckFailure(w[r], <<>>),
                 Ack(w[r], CustomResp)} : w' = [w EXCEPT ![r] = a]
    /\ UNCHANGED <<callbackVars, handlers, mu, now, crashed, reg, req, pc, loc, obs,
                   auxVars>>

\* The handler returns and Listen drops its entry from the table
HandlerReturnUnregisters(r) ==
    /\ ~crashed
    /\ pc[r] = "handler"
    /\ pc' = [pc EXCEPT ![r] = "done"]
    /\ handlers' = [e \in DOMAIN handlers \ {loc[r].event} |-> handlers[e]]
    /\ UNCHANGED <<callbackVars, mu, now, crashed, reg, req, loc, w, obs, auxVars>>

\* The handler returns, and Listen with it, line 1239
HandlerReturn(r) ==
    /\ ~crashed
    /\ pc[r] = "handler"
    /\ pc' = [pc EXCEPT ![r] = "done"]
    /\ UNCHANGED <<callbackVars, handlers, mu, now, crashed, reg, req, loc, w, obs,
                   auxVars>>

\* Time passes
Tick ==
    /\ ~crashed
    /\ now < T0 + MaxTicks * ClockStep
    /\ now' = now + ClockStep
    /\ UNCHANGED <<callbackVars, handlers, mu, crashed, reg, req, pc, loc, w, obs,
                   auxVars>>

Next ==
    \/ \E g \in Regs : RegisterLock(g)
    \/ \E g \in Regs : RegisterWriteBegin(g)
    \/ \E g \in Regs : RegisterWriteEnd(g)
    \/ \E g \in Regs : RegisterUnlock(g)
    \/ \E r \in OneReq : Accept(r)
    \/ \E r \in OneReq : VerifySignature(r)
    \/ \E r \in OneReq : VerifyAppId(r)
    \/ \E r \in OneReq : VerifyCommand(r)
    \/ \E r \in OneReq : ReadBody(r)
    \/ \E r \in OneReq : ParseCommand(r)
    \/ \E r \in OneReq : LookupBegin(r)
    \/ \E r \in OneReq : LookupEnd(r)
    \/ \E r \in OneReq : LookupFatal(r)
    \/ \E r \in OneReq : HandlerAck(r)
    \/ \E r \in OneReq : HandlerReturn(r)
    \/ Tick

Spec == Init /\ [][Next]_vars

(***************************************************************************)
(* signCheck called directly, on arguments drawn from bounded sets.        *)
(***************************************************************************)
SignCheckTimes(clock) ==
    {clock + d : d \in -62..62} \cup {MinInt, MaxInt, 0, Wrap(clock + MinInt)}

SignCheckArgs ==
    UNION {UNION {UNION {{[sign |-> s, requestTime |-> t, token |-> tok, clock |-> clock] :
                            s \in SignTexts(FormatInt(t), tok)
                                    \cup {signStr(clock, tok)}} :
                         t \in SignCheckTimes(clock)} :
                  tok \in {Tk, <<"s">>, EmptyString}} :
           clock \in {T0, T0 + ClockStep}}

InitSignCheck ==
    /\ appId \in AppIds
    /\ token = EmptyString
    /\ handlers = <<>>
    /\ mu = NoOne
    /\ now = T0
    /\ crashed = FALSE
    /\ reg = [g \in Regs |-> IdleReg]
    /\ req = [r \in Reqs |-> NoReq]
    /\ pc = [r \in Reqs |-> "idle"]
    /\ loc = [r \in Reqs |-> NoLoc]
    /\ w = [r \in Reqs |-> <<>>]
    /\ obs = [r \in Reqs |-> NoObs]
    /\ scArgs \in SignCheckArgs
    /\ scResult = "pending"
    /\ regLog = <<>>
    /\ NoParseCall
    /\ api = NoApiCall

SignCheckCall ==
    /\ scResult = "pending"
    /\ scResult' = signCheck(scArgs.sign, scArgs.requestTime, scArgs.token, scArgs.clock)
    /\ UNCHANGED <<callbackVars, handlers, mu, now, crashed, reg, req, pc, loc, w, obs,
                   scArgs, regLog, parseArgs, parseResult, parsePrev, api>>

NextSignCheck == SignCheckCall

SpecSignCheck == InitSignCheck /\ [][NextSignCheck]_vars

(***************************************************************************)
(* Register and dispatch with the history of the returned Register calls:  *)
(* no token, requests that pass the checks.                                *)
(***************************************************************************)
DispatchRequests(id) ==
    {Request(<<>>, <<>>, <<Itoa(id)>>, <<cmd>>, GoodBody) :
        cmd \in {commandAfterGroupCreate, commandStateChange, commandAfterGroupFull}}

AcceptDispatch(r) ==
    /\ ~crashed
    /\ pc[r] = "idle"
    /\ \E q \in DispatchRequests(appId) : req' = [req EXCEPT ![r] = q]
    /\ pc' = [pc EXCEPT ![r] = "sign"]
    /\ loc' = [loc EXCEPT ![r] = NoLoc]
    /\ w' = [w EXCEPT ![r] = newAck]
    /\ obs' = [obs EXCEPT ![r] = NoObs]
    /\ UNCHANGED <<callbackVars, handlers, mu, now, crashed, reg, auxVars>>

InitHistory == Init /\ token = EmptyString

NextHistory ==
    \/ \E g \in Regs : RegisterLock(g)
    \/ \E g \in Regs : RegisterWriteBegin(g)
    \/ \E g \in Regs : RegisterWriteEnd(g)
    \/ \E g \in Regs : RegisterUnlockLogged(g)
    \/ \E r \in OneReq : AcceptDispatch(r)
    \/ \E r \in OneReq : VerifySignature(r)
    \/ \E r \in OneReq : VerifyAppId(r)
    \/ \E r \in OneReq : VerifyCommand(r)
    \/ \E r \in OneReq : ReadBody(r)
    \/ \E r \in OneReq : ParseCommand(r)
    \/ \E r \in OneReq : LookupBegin(r)
    \/ \E r \in OneReq : LookupEnd(r)
    \/ \E r \in OneReq : LookupFatal(r)
    \/ \E r \in OneReq : HandlerAck(r)
    \/ \E r \in OneReq : HandlerReturn(r)

SpecHistory == InitHistory /\ [][NextHistory]_vars

(***************************************************************************)
(* Two requests in flight on a handler table registered at start-up: the   *)
(* second request is the first with other signature parameters.            *)
(***************************************************************************)
StartTables ==
    {<<>>,
     MapAssign(<<>>, EventAfterGroupCreate, "H1"),
     MapAssign(MapAssign(<<>>, EventAfterGroupCreate, "H2"), EventStateChange, "H1")}

SignVariants(q, tok, clock) ==
    {q} \cup {[q EXCEPT !.query[querySign] = p[1], !.query[querySignRequestTime] = p[2]] :
                p \in {<<<<>>, <<>>>>,
                       <<<<GoodSign(FormatInt(clock), Tk)>>, <<FormatInt(clock)>>>>,
                       <<<<EmptyString>>, <<<<"x">>>>>>}}

InitFixedTable ==
    /\ \E id \in AppIds, tok \in TokenArgs :
          LET c == NewCallback(id, tok)
          IN  /\ appId = c.appId
              /\ token = c.token
    /\ handlers \in StartTables
    /\ mu = NoOne
    /\ now = T0
    /\ crashed = FALSE
    /\ reg = [g \in Regs |-> IdleReg]
    /\ \E q1 \in Requests(appId, token, now) :
          \E q2 \in SignVariants(q1, token, now) : req = ("r1" :> q1) @@ ("r2" :> q2)
    /\ pc = [r \in Reqs |-> "sign"]
    /\ loc = [r \in Reqs |-> NoLoc]
    /\ w = [r \in Reqs |-> newAck]
    /\ obs = [r \in Reqs |-> NoObs]
    /\ scArgs = NoArgs
    /\ scResult = "idle"
    /\ regLog = <<>>
    /\ NoParseCall
    /\ api = NoApiCall

NextFixedTable ==
    \/ \E r \in Reqs : VerifySignature(r)
    \/ \E r \in Reqs : VerifyAppId(r)
    \/ \E r \in Reqs : VerifyCommand(r)
    \/ \E r \in Reqs : ReadBody(r)
    \/ \E r \in Reqs : ParseCommand(r)
    \/ \E r \in Reqs : LookupBegin(r)
    \/ \E r \in Reqs : LookupEnd(r)
    \/ \E r \in Reqs : HandlerAck(r)
    \/ \E r \in Reqs : HandlerReturn(r)

SpecFixedTable == InitFixedTable /\ [][NextFixedTable]_vars

(***************************************************************************)
(* parseCommand called directly, call after call, on arguments drawn from  *)
(* bounded sets: every command of the registry and some that are not,      *)
(* every body.                                                             *)
(***************************************************************************)
ParseCommands == Commands \cup {"", "Group.Unknown", "group.callbackaftercreategroup"}
ParseArgs == {[command |-> c, body |-> b] : c \in ParseCommands, b \in JsonTexts}

InitParseCommand ==
    /\ appId \in AppIds
    /\ token = EmptyString
    /\ handlers = <<>>
    /\ mu = NoOne
    /\ now = T0
    /\ crashed = FALSE
    /\ reg = [g \in Regs |-> IdleReg]
    /\ req = [r \in Reqs |-> NoReq]
    /\ pc = [r \in Reqs |-> "idle"]
    /\ loc = [r \in Reqs |-> NoLoc]
    /\ w = [r \in Reqs |-> <<>>]
    /\ obs = [r \in Reqs |-> NoObs]
    /\ scArgs = NoArgs
    /\ scResult = "idle"
    /\ regLog = <<>>
    /\ parseArgs \in ParseArgs
    /\ parseResult = ParseState("pending", NoParseResult)
    /\ parsePrev = NoParsePrev
    /\ api = NoApiCall

ParseCommandCall ==
    /\ parseResult.pc = "pending"
    /\ parseResult' = ParseState("returned", parseCommand(parseArgs.command, parseArgs.body))
    /\ UNCHANGED <<callbackVars, handlers, mu, now, crashed, reg, req, pc, loc, w, obs,
                   scArgs, scResult, regLog, parseArgs, parsePrev, api>>

ParseCommandAgain ==
    /\ parseResult.pc = "returned"
    /\ parsePrev' = [args |-> parseArgs, result |-> parseResult]
    /\ parseArgs' \in ParseArgs
    /\ parseResult' = ParseState("pending", NoParseResult)
    /\ UNCHANGED <<callbackVars, handlers, mu, now, crashed, reg, req, pc, loc, w, obs,
                   scArgs, scResult, regLog, api>>

NextParseCommand == ParseCommandCall \/ ParseCommandAgain

SpecParseCommand == InitParseCommand /\ [][NextParseCommand]_vars

(***************************************************************************)
(* Claims                                                                  *)
(***************************************************************************)
Done(r) == pc[r] = "done"
Present(r, key) == Len(req[r].query[key]) > 0
First(r, key) == req[r].query[key][1]
Written(status, code, info) ==
    <<[status |-> 200,
       body |-> "{\"ActionStatus\":\"" \o status \o "\",\"ErrorCode\":" \o ToString(code)
                    \o (IF info = "" THEN "}" ELSE ",\"ErrorInfo\":\"" \o info \o "\"}"),
       resp |-> [ActionStatus |-> status, ErrorCode |-> code, ErrorInfo |-> info]]>>
Failed(r) ==
    /\ Len(w[r]) = 1
    /\ w[r][1].status = 200
    /\ w[r][1].resp.ActionStatus = "FAIL"
    /\ w[r][1].resp.ErrorCode = 1
AfterLookup == {"lookup", "reading", "handler"}

\* C1: when Listen returns, exactly one Ack response has been written for the
\* request, whatever the credentials, the request and the handler table, a
\* registered handler included.
C1_ExactlyOneAck == \A r \in Reqs : Done(r) => Len(w[r]) = 1

\* C2: no request is reading the handler table in Listen while a Register call is
\* inside its write of the table.
C2_LookupSerialized ==
    ~ \E r \in Reqs, g \in Regs : pc[r] = "reading" /\ reg[g].pc = "writing"

\* C3: signCheck accepts if and only if sign is the lowercase hex digest of
\* token followed by the decimal requestTime and |now - requestTime| < 60.
C3_SignCheckIff ==
    scResult \notin {"idle", "pending"} =>
        ((scResult = Nil) <=>
            /\ scArgs.sign = signStr(scArgs.requestTime, scArgs.token)
            /\ MathAbs(scArgs.clock - scArgs.requestTime) < 60)

\* C10: a lookup that overlaps a Register observes the handler (or absence) in the
\* table before the Register or the new handler, never another value, and the
\* process does not crash.
C10_OldOrNew == ~crashed /\ \A r \in Reqs : ~obs[r].foreign

\* The signature parameters of a request are bad: one is missing, the time does
\* not parse, it is 60 seconds or more from the clock read by signCheck, or the
\* sign is not the digest.
SignatureBad(r) ==
    \/ ~Present(r, querySign)
    \/ ~Present(r, querySignRequestTime)
    \/ ParseInt(First(r, querySignRequestTime)).err
    \/ MathAbs(obs[r].clock - ParseInt(First(r, querySignRequestTime)).val) >= 60
    \/ First(r, querySign) # signStr(ParseInt(First(r, querySignRequestTime)).val, token)

\* C4: with a secret configured, a request whose signature parameters are bad ends
\* in AckFailure; its body is never read, its command never resolved and no
\* handler is invoked.
C4_BadSignatureRejected ==
    \A r \in Reqs :
        (token # EmptyString /\ pc[r] \notin {"idle", "sign"} /\ SignatureBad(r)) =>
            /\ Done(r)
            /\ Failed(r)
            /\ ~obs[r].bodyRead
            /\ ~obs[r].parsed
            /\ obs[r].invoked = <<>>

\* What Listen itself did for a request: its steps, the handler it called and with
\* what, and what it wrote itself.
ListenOutcome(r) ==
    [steps |-> obs[r].steps, invoked |-> obs[r].invoked,
     written |-> IF obs[r].invoked = <<>> THEN w[r] ELSE <<>>]

SameButSignature(q1, q2) ==
    /\ q1.body = q2.body
    /\ \A k \in {queryAppId, queryCommand} : q1.query[k] = q2.query[k]

\* C5: with no secret configured, Listen never reads Sign or RequestTime and never
\* calls signCheck; a request goes on to the app-id check whatever they are, and
\* two requests that differ only in them have the same outcome.
C5_NoTokenIgnoresSignature ==
    token = EmptyString =>
        /\ \A r \in Reqs :
              /\ obs[r].consulted \cap {querySign, querySignRequestTime} = {}
              /\ ~obs[r].signChecked
              /\ pc[r] \notin {"idle", "sign"} =>
                    \/ pc[r] = "appid" /\ obs[r].steps = <<>> /\ w[r] = <<>>
                    \/ obs[r].steps # <<>> /\ obs[r].steps[1] = "appid"
        /\ \A r1, r2 \in Reqs :
              (Done(r1) /\ Done(r2) /\ SameButSignature(req[r1], req[r2])) =>
                  ListenOutcome(r1) = ListenOutcome(r2)

C5_Witness ==
    /\ token = EmptyString
    /\ Done("r1") /\ Done("r2")
    /\ ~Present("r1", querySign) /\ ~Present("r1", querySignRequestTime)
    /\ Present("r2", querySign) /\ Present("r2", querySignRequestTime)
    /\ obs["r1"].invoked # <<>>
    /\ ListenOutcome("r1") = ListenOutcome("r2")

BadAppId(r) == ~Present(r, queryAppId) \/ First(r, queryAppId) # FormatInt(appId)

\* C6 as stated: a request whose SdkAppid is missing or is not the decimal form of
\* the application id is answered with AckFailure "invalid sdk appId", and no
\* handler is invoked.
C6_Original ==
    \A r \in Reqs :
        (Done(r) /\ BadAppId(r)) =>
            w[r] = Written("FAIL", 1, "invalid sdk appId") /\ obs[r].invoked = <<>>

\* C6 amended: such a request is answered with AckFailure (FAIL, code 1) and no
\* handler is invoked, whatever its command and body; the message is "invalid sdk
\* appId" when the request reaches the app-id check, and the message of the
\* signature step when it fails that step first.
C6_BadAppIdRejected ==
    \A r \in Reqs :
        (pc[r] # "idle" /\ BadAppId(r)) =>
            /\ obs[r].invoked = <<>>
            /\ pc[r] \in {"sign", "appid", "done"}
            /\ ~obs[r].bodyRead
            /\ Done(r) => Failed(r)
            /\ (Done(r) /\ obs[r].steps # <<"sign">>) =>
                   w[r] = Written("FAIL", 1, "invalid sdk appId")
            /\ (Done(r) /\ obs[r].steps = <<"sign">>) =>
                   w[r][1].resp.ErrorInfo \in {"invalid sign", "invalid request time",
                                               "parse request time err",
                                               "request time expired", "invalid signature"}

C6_Witness ==
    \E r \in Reqs :
        /\ Done(r)
        /\ Present(r, queryAppId)
        /\ First(r, queryAppId) = <<"9", "9", "9">>
        /\ Present(r, queryCommand)
        /\ First(r, queryCommand) = commandAfterGroupCreate
        /\ EventAfterGroupCreate \in DOMAIN handlers
        /\ w[r] = Written("FAIL", 1, "invalid sdk appId")

UnknownCommand(r) == ~Present(r, queryCommand) \/ First(r, queryCommand) \notin Commands

\* C7: a request whose CallbackCommand is none of the 22 command strings (missing
\* and empty included) is answered with ActionStatus FAIL and reaches no handler,
\* whatever is registered; a handler is invoked only after parseCommand returned
\* without error.
C7_UnknownCommandFails ==
    \A r \in Reqs :
        /\ (pc[r] # "idle" /\ UnknownCommand(r)) =>
              /\ obs[r].invoked = <<>>
              /\ pc[r] \notin AfterLookup
              /\ Done(r) => Len(w[r]) = 1 /\ w[r][1].resp.ActionStatus = "FAIL"
        /\ (pc[r] \in AfterLookup \/ obs[r].invoked # <<>>) =>
              obs[r].parsed /\ obs[r].parseErr = Nil

C7_Witness ==
    \E r \in Reqs :
        /\ Done(r)
        /\ Present(r, queryCommand)
        /\ First(r, queryCommand) \notin Commands
        /\ obs[r].parsed
        /\ obs[r].parseErr = "invalid callback command"
        /\ w[r] = Written("FAIL", 1, "invalid callback command")
        /\ DOMAIN handlers = RegEvents

\* The lookup of a request that passed all checks found no handler
Unhandled(r) == Done(r) /\ obs[r].looked /\ obs[r].invoked = <<>>

LogIndex(event) == {i \in 1..Len(regLog) : regLog[i].event = event}
LastRegistered(event) ==
    IF LogIndex(event) = {} THEN NoHandler
    ELSE regLog[CHOOSE i \in LogIndex(event) : \A j \in LogIndex(event) : j <= i].handler

\* C9: Register(E, H) sets the one entry of E to H and leaves the entries of the
\* other events unchanged; a request whose lookup for E happens after the Register
\* calls for E returned invokes the handler of the latest one (after H1 then H2:
\* H2), exactly once, and no other.
C9_LastWriteWins ==
    [][/\ \A g \in Regs :
             (reg[g].pc = "writing" /\ reg'[g].pc = "written") =>
                 /\ Lookup(handlers', reg[g].event) = [fn |-> reg[g].handler, ok |-> TRUE]
                 /\ \A e \in Events \ {reg[g].event} :
                        Lookup(handlers', e) = Lookup(handlers, e)
       /\ \A r \in Reqs :
             (/\ pc[r] = "reading" /\ pc'[r] # "reading"
              /\ ~obs[r].raced
              /\ InFlight(loc[r].event) = {}
              /\ LastRegistered(loc[r].event) # NoHandler) =>
                 /\ pc'[r] = "handler"
                 /\ loc'[r].fn = LastRegistered(loc[r].event)
                 /\ obs'[r].invoked = <<[fn |-> LastRegistered(loc[r].event),
                                         data |-> loc[r].data]>>]_vars

C9_Witness ==
    \E r \in Reqs :
        /\ regLog = <<[event |-> EventAfterGroupCreate, handler |-> "H1"],
                      [event |-> EventAfterGroupCreate, handler |-> "H2"]>>
        /\ \A g \in Regs : reg[g].pc = "idle"
        /\ pc[r] = "handler"
        /\ loc[r].event = EventAfterGroupCreate
        /\ loc[r].fn = "H2"
        /\ ~obs[r].foreign

\* C11: once an Ack method has written the response of a request, a further call
\* of an Ack method on the same Ack writes nothing: a request's ResponseWriter
\* never holds more than one write.
C11_SecondAckGuarded == \A r \in Reqs : Len(w[r]) <= 1

(***************************************************************************)
(* Register and dispatch under fair scheduling: the Go scheduler runs      *)
(* every goroutine that can take a step, so each step of Listen and of a   *)
(* Register call in progress is eventually taken, and a handler that was   *)
(* called returns.  Nothing obliges the application to call Register, the  *)
(* server to receive a request, or a handler to call an Ack method.        *)
(***************************************************************************)
ListenStep(r) ==
    \/ VerifySignature(r)
    \/ VerifyAppId(r)
    \/ VerifyCommand(r)
    \/ ReadBody(r)
    \/ ParseCommand(r)
    \/ LookupBegin(r)
    \/ LookupEnd(r)
    \/ HandlerReturn(r)

RegisterStep(g) ==
    \/ RegisterWriteBegin(g)
    \/ RegisterWriteEnd(g)
    \/ RegisterUnlockLogged(g)

Fairness ==
    /\ \A r \in OneReq : WF_vars(ListenStep(r))
    /\ \A g \in Regs : WF_vars(RegisterStep(g))

SpecFair == InitHistory /\ [][NextHistory]_vars /\ Fairness

\* C12: under fair scheduling, every request that enters Listen eventually
\* reaches the end of Listen with a response written.
C12_EventuallyAcked ==
    \A r \in Reqs : (pc[r] \notin {"idle", "done"}) ~> (pc[r] = "done" /\ Len(w[r]) >= 1)

\* The steps of Listen in the order of the source; the signature step is taken
\* only with a token configured.
StepOrder == <<"sign", "appid", "command", "body", "parse", "lookup">>
ExpectedOrder == IF token # EmptyString THEN StepOrder ELSE Tail(StepOrder)
IsPrefix(s, t) == Len(s) <= Len(t) /\ \A i \in 1..Len(s) : s[i] = t[i]

\* The message with which a step rejects the request of r, Nil when it passes
StepFailure(r, step) ==
    CASE step = "sign" -> verifySignature(req[r], token, obs[r].clock).err
      [] step = "appid" -> IF BadAppId(r) THEN "invalid sdk appId" ELSE Nil
      [] step = "command" ->
             IF Present(r, queryCommand) THEN Nil ELSE "invalid callback command"
      [] step = "body" -> req[r].body.err
      [] step = "parse" -> parseCommand(First(r, queryCommand), req[r].body.json).err
      [] OTHER -> Nil

LastStep(r) == obs[r].steps[Len(obs[r].steps)]

\* C13: the steps of a request are taken in the order signature (with a token),
\* app id, command presence, body read, parseCommand, lookup, none twice; a step
\* is taken only when all before it passed, and a request rejected by Listen
\* carries the message of the step that failed first in this order.
C13_StepOrder ==
    \A r \in Reqs :
        pc[r] # "idle" =>
            /\ IsPrefix(obs[r].steps, ExpectedOrder)
            /\ \A i \in 1..(Len(obs[r].steps) - 1) : StepFailure(r, obs[r].steps[i]) = Nil
            /\ pc[r] \in {"appid", "command", "body", "parse", "lookup"} =>
                  /\ ExpectedOrder[Len(obs[r].steps) + 1] = pc[r]
                  /\ obs[r].steps # <<>> => StepFailure(r, LastStep(r)) = Nil
            /\ pc[r] = "sign" => obs[r].steps = <<>>
            /\ pc[r] \in {"reading", "handler"} \/ obs[r].looked =>
                  obs[r].steps = ExpectedOrder
            /\ (Done(r) /\ ~obs[r].looked) =>
                  /\ StepFailure(r, LastStep(r)) # Nil
                  /\ w[r] = Written("FAIL", 1, StepFailure(r, LastStep(r)))

C13_Witness ==
    \E r \in Reqs :
        /\ Done(r)
        /\ token # EmptyString
        /\ Present(r, queryCommand)
        /\ First(r, queryCommand) = "Group.Unknown"
        /\ req[r].body.err = "unexpected EOF"
        /\ LastStep(r) = "body"
        /\ w[r] = Written("FAIL", 1, "unexpected EOF")

\* C14: every response written for a request, by Listen or by an Ack method a
\* handler calls, carries HTTP status 200; a request that Listen rejects has the
\* failure in the envelope only: status 200, ActionStatus FAIL, ErrorCode 1.
C14_AlwaysStatus200 ==
    \A r \in Reqs :
        /\ \A i \in 1..Len(w[r]) : w[r][i].status = 200
        /\ (Done(r) /\ ~obs[r].looked) =>
              /\ Len(w[r]) = 1
              /\ w[r][1].status = 200
              /\ w[r][1].resp.ActionStatus = "FAIL"
              /\ w[r][1].resp.ErrorCode = 1
              /\ w[r][1].body = "{\"ActionStatus\":\"FAIL\",\"ErrorCode\":1,\"ErrorInfo\":\""
                                    \o w[r][1].resp.ErrorInfo \o "\"}"

C14_Witness ==
    \E r \in Reqs :
        /\ Done(r)
        /\ token # EmptyString
        /\ obs[r].steps = <<"sign">>
        /\ obs[r].signChecked
        /\ Len(w[r]) = 1
        /\ w[r][1].status = 200
        /\ w[r][1].resp.ErrorInfo = "invalid signature"

\* A direct call of parseCommand returned an event
Resolved(result) == result.pc = "returned" /\ result.err = Nil

\* C15: parseCommand maps the 22 command strings one-to-one onto the 22 Event
\* constants: a resolved command gives an Event constant, two calls give the same
\* event exactly when they have the same command, and every Event constant is
\* the event of a command.
C15_RegistryBijection ==
    /\ Cardinality(Commands) = 22
    /\ Cardinality(Events) = 22
    /\ \A e \in Events : \E c \in Commands : parseCommand(c, BodyObject).event = e
    /\ Resolved(parseResult) =>
          /\ parseArgs.command \in Commands
          /\ parseResult.event \in Events
          /\ Resolved(parsePrev.result) =>
                ((parsePrev.args.command = parseArgs.command)
                     <=> (parsePrev.result.event = parseResult.event))

C15_Witness ==
    /\ Resolved(parsePrev.result)
    /\ Resolved(parseResult)
    /\ parsePrev.args.command = commandAfterGroupInfoChanged
    /\ parsePrev.result.event = EventAfterGroupInfoChanged
    /\ parseArgs.command = commandBeforeFriendResponse
    /\ parseResult.event = EventBeforeFriendResponse

\* The payload a handler is to receive for the request of r: the struct of the
\* command's case, decoded from the body
ExpectedPayload(r) ==
    [shape |-> commandCase(First(r, queryCommand)).shape,
     GroupId |-> req[r].body.json.GroupId]

\* C16: when the lookup of a request that passed all checks finds a handler for
\* the request's event, Listen calls that handler, once, with the payload decoded
\* from the request's body into the struct of its command, and writes no response
\* itself, neither before the call nor after the handler returned.
C16_HandlerInvoked ==
    [][\A r \in Reqs :
          /\ (/\ pc[r] = "reading" /\ pc'[r] # "reading"
              /\ ~obs[r].raced
              /\ commandCase(First(r, queryCommand)).event \in DOMAIN handlers) =>
                 /\ pc'[r] = "handler"
                 /\ obs'[r].invoked =
                        <<[fn |-> handlers[commandCase(First(r, queryCommand)).event],
                           data |-> ExpectedPayload(r)]>>
                 /\ w'[r] = <<>>
          /\ (pc[r] = "handler" /\ pc'[r] = "done") =>
                 /\ w'[r] = w[r]
                 /\ obs'[r].invoked = obs[r].invoked]_vars

DecodeErrors == {"unexpected end of JSON input", "json: cannot unmarshal array into Go value"}

\* C17: an unknown command and a body that does not decode for a known command
\* are different errors of parseCommand: both give event 0 and a nil payload and
\* end in AckFailure without a lookup or a handler call; the response of the
\* first says "invalid callback command", that of the second carries the
\* decoder's error.
C17_DistinctParseErrors ==
    \A r \in Reqs :
        /\ (obs[r].parsed /\ First(r, queryCommand) \in Commands
               /\ req[r].body.json.kind \in {"malformed", "mismatch"}) =>
              obs[r].parseErr # Nil
        /\ (obs[r].parsed /\ obs[r].parseErr # Nil) =>
              /\ parseCommand(First(r, queryCommand), req[r].body.json).event = 0
              /\ parseCommand(First(r, queryCommand), req[r].body.json).data = NilData
              /\ Done(r)
              /\ ~obs[r].looked
              /\ obs[r].invoked = <<>>
              /\ w[r] = Written("FAIL", 1, obs[r].parseErr)
              /\ First(r, queryCommand) \notin Commands =>
                    obs[r].parseErr = "invalid callback command"
              /\ First(r, queryCommand) \in Commands =>
                    /\ obs[r].parseErr \in DecodeErrors
                    /\ req[r].body.json.kind \in {"malformed", "mismatch"}

C17_Witness ==
    \E r \in Reqs :
        /\ Done(r)
        /\ obs[r].parsed
        /\ First(r, queryCommand) = commandAfterGroupCreate
        /\ req[r].body.json = BodyMismatch
        /\ EventAfterGroupCreate \in DOMAIN handlers
        /\ w[r] = Written("FAIL", 1, "json: cannot unmarshal array into Go value")

\* A step of Register(e, h) that completes its write of the table
RegisterWrites(g) == reg[g].pc = "writing" /\ reg'[g].pc = "written"

\* C18: no step changes the application id or the token; a step that changes the
\* handler table is the write of a Register call, which sets the entry of its own
\* event and leaves every other entry as it was; no step of Listen (none that
\* moves a request or writes a response) changes the table.
C18_ListenFrame ==
    [][/\ appId' = appId
       /\ token' = token
       /\ handlers' # handlers =>
             \E g \in Regs :
                 /\ RegisterWrites(g)
                 /\ Lookup(handlers', reg[g].event) = [fn |-> reg[g].handler, ok |-> TRUE]
                 /\ \A e \in Events \ {reg[g].event} :
                        Lookup(handlers', e) = Lookup(handlers, e)
       /\ (\E r \in Reqs : pc'[r] # pc[r] \/ w'[r] # w[r] \/ obs'[r].steps # obs[r].steps) =>
             handlers' = handlers]_vars

C18_Witness ==
    \E r \in Reqs :
        /\ Done(r)
        /\ obs[r].invoked # <<>>
        /\ Len(w[r]) = 1
        /\ token = Tk
        /\ DOMAIN handlers = RegEvents
        /\ \A g \in Regs : reg[g].pc = "idle"

\* C19: the set of events that have a handler never shrinks: every step keeps
\* every entry of the table, an entry changing only by the write of a Register
\* call for its own event; the event of every Register call that returned has
\* an entry.
C19_NeverShrinks ==
    /\ [](\A i \in 1..Len(regLog) : regLog[i].event \in DOMAIN handlers)
    /\ [][/\ DOMAIN handlers \subseteq DOMAIN handlers'
          /\ \A e \in DOMAIN handlers :
                handlers'[e] # handlers[e] =>
                    \E g \in Regs : /\ RegisterWrites(g)
                                    /\ reg[g].event = e
                                    /\ handlers'[e] = reg[g].handler]_vars

C19_Witness ==
    /\ Len(regLog) = 2
    /\ regLog[1].event # regLog[2].event
    /\ DOMAIN handlers = RegEvents
    /\ handlers[regLog[1].event] = regLog[1].handler
    /\ handlers[regLog[2].event] = regLog[2].handler
    /\ \E r \in Reqs : Done(r) /\ obs[r].looked

\* C20: Listen closes the body once it has read it, with or without error, and
\* before parseCommand; when the read fails it answers AckFailure with the text
\* of the I/O error and neither calls parseCommand nor looks up or calls a
\* handler.
C20_BodyReadError ==
    \A r \in Reqs :
        /\ obs[r].bodyRead => obs[r].bodyClosed
        /\ obs[r].parsed => obs[r].bodyRead /\ obs[r].bodyClosed
        /\ ~obs[r].bodyRead => ~obs[r].bodyClosed
        /\ (obs[r].bodyRead /\ req[r].body.err # Nil) =>
              /\ Done(r)
              /\ w[r] = Written("FAIL", 1, req[r].body.err)
              /\ ~obs[r].parsed
              /\ ~obs[r].looked
              /\ obs[r].invoked = <<>>

C20_Witness ==
    \E r \in Reqs :
        /\ Done(r)
        /\ obs[r].bodyRead
        /\ obs[r].bodyClosed
        /\ req[r].body.err = "unexpected EOF"
        /\ First(r, queryCommand) = commandAfterGroupCreate
        /\ EventAfterGroupCreate \in DOMAIN handlers
        /\ w[r] = Written("FAIL", 1, "unexpected EOF")

\* C22: the freshness test of signCheck rejects a requestTime exactly when its
\* true distance from the clock is 60 seconds or more, for every requestTime of
\* the integer width, the ones whose difference wraps around included.
C22_FreshnessExact ==
    scResult \notin {"idle", "pending"} =>
        ((scResult = "request time expired")
             <=> MathAbs(scArgs.clock - scArgs.requestTime) >= 60)

\* C23: signCheck tests the window before the digest: a requestTime 60 seconds or
\* more from the clock is answered "request time expired" whatever the sign, and
\* "invalid signature" is answered only inside the window, for a sign that is
\* not the digest.
C23_WindowBeforeDigest ==
    scResult \notin {"idle", "pending"} =>
        /\ MathAbs(scArgs.clock - scArgs.requestTime) >= 60 =>
              scResult = "request time expired"
        /\ scResult = "invalid signature" =>
              /\ MathAbs(scArgs.clock - scArgs.requestTime) < 60
              /\ scArgs.sign # signStr(scArgs.requestTime, scArgs.token)

\* C24: a callback constructed with the empty token is the callback constructed
\* with no token, and signature verification is skipped for it on every request:
\* no step reads Sign or RequestTime or calls signCheck, and the first step taken
\* is the app-id check; a callback constructed with several tokens holds the
\* first one, and a callback holding a token starts every request with the
\* signature step.
C24_EmptyTokenIsNoToken ==
    /\ NewCallback(appId, <<EmptyString>>) = NewCallback(appId, <<>>)
    /\ \E tok \in TokenArgs :
          token = IF Len(tok) > 0 THEN tok[1] ELSE EmptyString
    /\ \A r \in Reqs :
          /\ token = EmptyString =>
                /\ obs[r].consulted \cap {querySign, querySignRequestTime} = {}
                /\ ~obs[r].signChecked
                /\ "sign" \notin {obs[r].steps[i] : i \in DOMAIN obs[r].steps}
                /\ Done(r) => obs[r].steps[1] = "appid"
          /\ (token # EmptyString /\ Done(r)) =>
                /\ obs[r].steps[1] = "sign"
                /\ querySign \in obs[r].consulted

C24_Witness ==
    /\ token = EmptyString
    /\ \E r \in Reqs :
          /\ Done(r)
          /\ Present(r, querySign)
          /\ First(r, querySign) # signStr(0, token)
          /\ obs[r].invoked # <<>>

\* The steps Listen has taken for a request
StepsTaken(r) == {obs[r].steps[i] : i \in DOMAIN obs[r].steps}
\* Listen ended the request of r at a step with the failure message
RejectedAt(r, step, message) ==
    /\ Done(r)
    /\ LastStep(r) = step
    /\ obs[r].invoked = <<>>
    /\ w[r] = Written("FAIL", 1, message)

\* C27: Listen acts on the first value of a repeated query parameter and treats
\* a parameter as absent only when its key does not occur: Sign, RequestTime and
\* CallbackCommand are rejected as missing exactly when they have no value, the
\* app id and the digest are compared with the first value, the command resolved
\* is the first value, and an empty CallbackCommand passes the presence test, has
\* its body read and is rejected by parseCommand as an unknown command.
C27_FirstValuePresent ==
    \A r \in Reqs :
        /\ (token # EmptyString /\ Done(r)) =>
              /\ RejectedAt(r, "sign", "invalid sign") <=> ~Present(r, querySign)
              /\ RejectedAt(r, "sign", "invalid request time") <=>
                     (Present(r, querySign) /\ ~Present(r, querySignRequestTime))
        /\ (token # EmptyString /\ "appid" \in StepsTaken(r)) =>
              First(r, querySign)
                  = signStr(ParseInt(First(r, querySignRequestTime)).val, token)
        /\ "command" \in StepsTaken(r) =>
              /\ Present(r, queryAppId)
              /\ First(r, queryAppId) = Itoa(appId)
              /\ Done(r) => (LastStep(r) = "command" <=> ~Present(r, queryCommand))
        /\ "body" \in StepsTaken(r) =>
              /\ Present(r, queryCommand)
              /\ loc[r].command = First(r, queryCommand)
        /\ (Done(r) /\ "command" \in StepsTaken(r) /\ Present(r, queryCommand)
                /\ First(r, queryCommand) = "" /\ req[r].body.err = Nil) =>
              /\ obs[r].bodyRead
              /\ RejectedAt(r, "parse", "invalid callback command")

C27_Witness ==
    \E r \in Reqs :
        /\ Done(r)
        /\ Len(req[r].query[queryCommand]) = 2
        /\ req[r].query[queryCommand][2] # First(r, queryCommand)
        /\ RejectedAt(r, "parse", "invalid callback command")

\* The outcome of Listen for the request q, computed from q, the credentials, the
\* clock and the handler table alone: the handler called and its payload, or the
\* response Listen writes itself.
RequestOutcome(q, id, tok, clock, table) ==
    LET rejected(message) == [invoked |-> <<>>, written |-> Written("FAIL", 1, message)]
        sign == IF tok # EmptyString THEN verifySignature(q, tok, clock).err ELSE Nil
        app == GetQuery(q, queryAppId)
        command == GetQuery(q, queryCommand)
    IN  IF sign # Nil THEN rejected(sign)
        ELSE IF ~app.ok \/ app.val # Itoa(id) THEN rejected("invalid sdk appId")
        ELSE IF ~command.ok THEN rejected("invalid callback command")
        ELSE IF q.body.err # Nil THEN rejected(q.body.err)
        ELSE LET p == parseCommand(command.val, q.body.json)
             IN  IF p.err # Nil THEN rejected(p.err)
                 ELSE IF p.event \in DOMAIN table
                      THEN [invoked |-> <<[fn |-> table[p.event], data |-> p.data]>>,
                            written |-> <<>>]
                      ELSE [invoked |-> <<>>, written |-> Written("OK", 0, "")]

\* C21: with the handler table fixed, the outcome of a request (the handler
\* Listen calls and its payload, or the response Listen writes) is a function of
\* the request's own parameters and body, the credentials and the clock: it is
\* the same whatever the other request in flight is and however far it has got,
\* two equal requests have equal outcomes, and until Listen has decided nothing
\* is written for the request.
C21_RequestsIndependent ==
    /\ \A r \in Reqs :
          /\ (Done(r) \/ pc[r] = "handler") =>
                [invoked |-> obs[r].invoked,
                 written |-> IF obs[r].invoked = <<>> THEN w[r] ELSE <<>>]
                    = RequestOutcome(req[r], appId, token, now, handlers)
          /\ pc[r] \notin {"done", "handler"} => (w[r] = <<>> /\ obs[r].invoked = <<>>)
    /\ \A r1, r2 \in Reqs :
          (Done(r1) /\ Done(r2) /\ req[r1] = req[r2]) =>
              ListenOutcome(r1) = ListenOutcome(r2)

C21_Witness ==
    /\ pc["r1"] = "handler"
    /\ Done("r2")
    /\ req["r1"] # req["r2"]
    /\ First("r1", queryCommand) = First("r2", queryCommand)
    /\ obs["r1"].invoked = obs["r2"].invoked
    /\ obs["r2"].invoked # <<>>

(***************************************************************************)
(* The group REST API: FetchGroupIds, FetchGroups, GetGroup and GetGroups, *)
(* lines 207-278 and 341-435.  client.Post is the provider: it answers a   *)
(* request with an error or fills the response.  A nil pointer result is   *)
(* the empty sequence, a non-nil one a sequence of one value.              *)
(***************************************************************************)
serviceGroup == "group_open_http_svc"
commandFetchGroupIds == "get_appid_group_list"
commandGetGroups == "get_group_info"

MaxVarArgs == 3     \* the variadic arguments passed to FetchGroups
MaxGroupIds == 2    \* the group ids in a list of the provider

GroupIdOf(i) == "@TGS#" \o ToString(i)
NilFilter == Nil
Filters == {"F1", NilFilter}
GroupTypes == {"Public", "Private"}

\* The values passed as groupTypeAndFilter ...interface{}: a Type, a *Filter
\* (nil included) or a value of another type
VarArgValues ==
    {[kind |-> "Type", val |-> t] : t \in GroupTypes}
        \cup {[kind |-> "Filter", val |-> f] : f \in Filters}
        \cup {[kind |-> "string", val |-> "Public"]}
VarArgs == UNION {[1..n -> VarArgValues] : n \in 0..MaxVarArgs}

\* The type switch over every argument, none left out
RECURSIVE InspectAllArgs(_, _, _)
InspectAllArgs(va, i, acc) ==
    IF i > Len(va) THEN acc
    ELSE InspectAllArgs(va, i + 1,
             CASE va[i].kind = "Type" -> [acc EXCEPT !.groupType = va[i].val]
               [] va[i].kind = "Filter" -> [acc EXCEPT !.filter = va[i].val]
               [] OTHER -> acc)

\* Lines 245-257: the loop over groupTypeAndFilter from the argument at
\* position i (Go index i - 1), left at Go index 2
RECURSIVE InspectArgs(_, _, _)
InspectArgs(va, i, acc) ==
    IF i > Len(va) \/ i - 1 > 1 THEN acc
    ELSE InspectArgs(va, i + 1,
             CASE va[i].kind = "Type" -> [acc EXCEPT !.groupType = va[i].val]
               [] va[i].kind = "Filter" -> [acc EXCEPT !.filter = va[i].val]
               [] OTHER -> acc)

\* Lines 239-243: var filter *Filter, groupType Type
NoTypeNoFilter == [groupType |-> "", filter |-> NilFilter]

\* Lines 208-211: the request of FetchGroupIds; groupType is variadic
fetchGroupIdsReq(limit, next, groupType) ==
    [Limit |-> limit, Next |-> next,
     GroupType |-> IF Len(groupType) > 0 THEN groupType[1] ELSE ""]

\* Lines 219-229: the result of FetchGroupIds built from the response
FetchGroupIdsRet(resp) ==
    [Next |-> resp.Next, Total |-> resp.TotalCount, HasMore |-> resp.Next # 0,
     List |-> [i \in 1..Len(resp.GroupIdList) |-> resp.GroupIdList[i].GroupId]]

\* Lines 365-377: the request of GetGroups; filter is variadic
getGroupsReq(groupIds, filter) ==
    [GroupIds |-> groupIds,
     ResponseFilter |-> IF Len(filter) > 0 /\ filter[1] # NilFilter
                        THEN <<filter[1]>> ELSE <<>>]

Post(command, request) == [service |-> serviceGroup, command |-> command, req |-> request]

\* Group.setError: the error of a group entry, nil for the code 0
setError(code, info) == IF code # 0 THEN info ELSE Nil

\* Lines 383-431: the groups built from resp.GroupInfos
RECURSIVE Groups(_)
Groups(infos) ==
    IF infos = <<>> THEN <<>>
    ELSE LET item == Head(infos)
             err == setError(item.ErrorCode, item.ErrorInfo)
         IN  (IF err = Nil THEN <<[id |-> item.GroupId, err |-> err]>> ELSE <<>>)
                 \o Groups(Tail(infos))

\* Lines 348-356: what GetGroup returns for the groups of GetGroups
GetGroupReturn(groups) ==
    IF Len(groups) > 0
    THEN IF groups[1].err # Nil
         THEN [ret |-> <<>>, err |-> groups[1].err]
         ELSE [ret |-> <<groups[1]>>, err |-> Nil]
    ELSE [ret |-> <<>>, err |-> Nil]

\* Lines 266-271: the result of FetchGroups
FetchGroupsRet(resp, groups) ==
    [Total |-> resp.Total, Next |-> resp.Next, HasMore |-> resp.HasMore, List |-> groups]

\* The answers of the provider to get_appid_group_list
PostError == "request timeout"
IdLists == {[i \in 1..n |-> [GroupId |-> GroupIdOf(i)]] : n \in 0..MaxGroupIds}
IdAnswers ==
    {[err |-> PostError, Next |-> 0, TotalCount |-> 0, GroupIdList |-> <<>>]}
        \cup {[err |-> Nil, Next |-> n, TotalCount |-> Len(l) + n, GroupIdList |-> l] :
                 l \in IdLists, n \in {0, MaxGroupIds}}

\* The answers of the provider to get_group_info for the ids: one entry for each,
\* with or without an error of the group (10010, the group does not exist), or
\* no entry
GroupAnswers(ids) ==
    {[err |-> PostError, GroupInfos |-> <<>>], [err |-> Nil, GroupInfos |-> <<>>]}
        \cup {[err |-> Nil,
               GroupInfos |-> [i \in 1..Len(ids) |->
                                 [GroupId |-> ids[i], ErrorCode |-> c[i],
                                  ErrorInfo |-> IF c[i] = 0 THEN "" ELSE "group not exist"]]] :
                 c \in [1..Len(ids) -> {0, 10010}]}

nonApiVars == <<appId, token, handlers, mu, now, crashed, reg, req, pc, loc, w, obs,
                scArgs, scResult, regLog, parseArgs, parseResult, parsePrev>>

\* GetGroup, lines 341-346, into GetGroups up to its Post, lines 364-379
GetGroupCall(groupId, filter) ==
    /\ api.pc = "idle"
    /\ api' = [op |-> "GetGroup", pc |-> "groups",
               args |-> [NoApiArgs EXCEPT !.groupId = groupId, !.filter = filter],
               posts |-> <<Post(commandGetGroups, getGroupsReq(<<groupId>>, filter))>>,
               resps |-> <<>>, ret |-> <<>>, err |-> Nil]
    /\ UNCHANGED nonApiVars

\* FetchGroups, lines 238-259, into FetchGroupIds up to its Post, lines 207-215
FetchGroupsCall(limit, next, va) ==
    /\ api.pc = "idle"
    /\ LET v == InspectArgs(va, 1, NoTypeNoFilter)
       IN  api' = [op |-> "FetchGroups", pc |-> "ids",
                   args |-> [NoApiArgs EXCEPT !.limit = limit, !.next = next,
                                              !.groupTypeAndFilter = va],
                   posts |-> <<Post(commandFetchGroupIds,
                                    fetchGroupIdsReq(limit, next, <<v.groupType>>))>>,
                   resps |-> <<>>, ret |-> <<>>, err |-> Nil]
    /\ UNCHANGED nonApiVars

\* The Post of line 215 returns: FetchGroupIds, lines 215-231, and FetchGroups
\* up to the Post of GetGroups, lines 259-264 and 364-379
FetchGroupIdsReturn ==
    /\ api.pc = "ids"
    /\ \E resp \in IdAnswers :
          IF resp.err # Nil
          THEN api' = [api EXCEPT !.pc = "returned", !.resps = Append(@, resp),
                                  !.err = resp.err]
          ELSE LET ids == FetchGroupIdsRet(resp)
                   v == InspectArgs(api.args.groupTypeAndFilter, 1, NoTypeNoFilter)
               IN  IF Len(ids.List) > 0
                   THEN api' = [api EXCEPT
                                  !.pc = "groups", !.resps = Append(@, resp),
                                  !.posts = Append(@, Post(commandGetGroups,
                                                getGroupsReq(ids.List, <<v.filter>>)))]
                   ELSE api' = [api EXCEPT !.pc = "returned", !.resps = Append(@, resp)]
    /\ UNCHANGED nonApiVars

\* The Post of line 379 returns: GetGroups, lines 379-434, and its caller,
\* GetGroup at lines 344-356 or FetchGroups at lines 262-277
GetGroupsReturn ==
    /\ api.pc = "groups"
    /\ \E resp \in GroupAnswers(api.posts[Len(api.posts)].req.GroupIds) :
          IF resp.err # Nil
          THEN api' = [api EXCEPT !.pc = "returned", !.resps = Append(@, resp),
                                  !.err = resp.err]
          ELSE LET groups == Groups(resp.GroupInfos)
               IN  IF api.op = "GetGroup"
                   THEN api' = [api EXCEPT !.pc = "returned", !.resps = Append(@, resp),
                                           !.ret = GetGroupReturn(groups).ret,
                                           !.err = GetGroupReturn(groups).err]
                   ELSE api' = [api EXCEPT
                                  !.pc = "returned", !.resps = Append(@, resp),
                                  !.ret = <<FetchGroupsRet(FetchGroupIdsRet(api.resps[1]),
                                                           groups)>>]
    /\ UNCHANGED nonApiVars

\* The api holds a client only; the callback is left as constructed
InitGroupAPI == Init /\ token = EmptyString

NextGroupAPI ==
    \/ \E groupId \in {GroupIdOf(1)}, filter \in {<<>>, <<"F1">>, <<NilFilter>>} :
          GetGroupCall(groupId, filter)
    \/ \E limit \in {10}, next \in {0, MaxGroupIds}, va \in VarArgs :
          FetchGroupsCall(limit, next, va)
    \/ FetchGroupIdsReturn
    \/ GetGroupsReturn

SpecGroupAPI == InitGroupAPI /\ [][NextGroupAPI]_vars

\* The entries of the provider's answer for the group asked for
EntriesFor(resp, groupId) ==
    {i \in DOMAIN resp.GroupInfos : resp.GroupInfos[i].GroupId = groupId}

\* C25: GetGroup returns a non-nil error whenever the provider's answer carries
\* an entry with a non-zero ErrorCode for the group asked for, never a nil group
\* with a nil error; a group is returned only with a nil error and only from an
\* entry without error.
C25_GroupErrorReturned ==
    (api.op = "GetGroup" /\ api.pc = "returned" /\ api.resps[1].err = Nil) =>
        LET resp == api.resps[1]
            errored == {i \in EntriesFor(resp, api.args.groupId) :
                           resp.GroupInfos[i].ErrorCode # 0}
        IN  /\ errored # {} => api.err # Nil
            /\ api.ret # <<>> =>
                  /\ api.err = Nil
                  /\ errored = {}
                  /\ api.ret[1].id = api.args.groupId

\* The arguments FetchGroups may inspect, and the last value of a kind in them
FirstTwo(va) == SubSeq(va, 1, IF Len(va) < 2 THEN Len(va) ELSE 2)
LastOfKind(s, kind, default) ==
    LET at == {i \in DOMAIN s : s[i].kind = kind}
    IN  IF at = {} THEN default
        ELSE s[CHOOSE i \in at : \A j \in at : j <= i].val

\* C26: FetchGroups posts get_appid_group_list first and get_group_info only
\* after it returned without error with a non-empty id list, for the ids of that
\* list; when a Post fails it returns a nil result with that error and posts
\* nothing more; for an empty id list it returns a nil result and a nil error;
\* the group type and the filter of the requests are those found in the first
\* two variadic arguments, whatever follows them.
C26_FetchGroupsOrder ==
    api.op = "FetchGroups" =>
        LET va == FirstTwo(api.args.groupTypeAndFilter)
            filter == LastOfKind(va, "Filter", NilFilter)
            returned == api.pc = "returned"
        IN  /\ Len(api.posts) \in {1, 2}
            /\ Len(api.resps) <= Len(api.posts)
            /\ returned <=> Len(api.resps) = Len(api.posts)
            /\ api.posts[1].command = commandFetchGroupIds
            /\ api.posts[1].req.GroupType = LastOfKind(va, "Type", "")
            /\ api.posts[1].req.Limit = api.args.limit
            /\ api.posts[1].req.Next = api.args.next
            /\ Len(api.posts) = 2 =>
                  /\ api.posts[2].command = commandGetGroups
                  /\ api.resps[1].err = Nil
                  /\ api.resps[1].GroupIdList # <<>>
                  /\ api.posts[2].req.GroupIds
                         = [i \in DOMAIN api.resps[1].GroupIdList |->
                               api.resps[1].GroupIdList[i].GroupId]
                  /\ api.posts[2].req.ResponseFilter
                         = IF filter = NilFilter THEN <<>> ELSE <<filter>>
            /\ (api.resps # <<>> /\ api.resps[1].err = Nil
                    /\ api.resps[1].GroupIdList # <<>>) => Len(api.posts) = 2
            /\ (returned /\ api.resps[Len(api.resps)].err # Nil) =>
                  /\ api.ret = <<>>
                  /\ api.err = api.resps[Len(api.resps)].err
            /\ (returned /\ Len(api.posts) = 1 /\ api.resps[1].err = Nil) =>
                  /\ api.resps[1].GroupIdList = <<>>
                  /\ api.ret = <<>>
                  /\ api.err = Nil
            /\ ~returned => (api.ret = <<>> /\ api.err = Nil)

C26_Witness ==
    /\ api.op = "FetchGroups"
    /\ api.pc = "returned"
    /\ Len(api.args.groupTypeAndFilter) = 3
    /\ api.args.groupTypeAndFilter[3].kind = "Type"
    /\ api.args.groupTypeAndFilter[3].val # api.posts[1].req.GroupType
    /\ api.args.groupTypeAndFilter[2].kind = "Filter"
    /\ Len(api.posts) = 2
    /\ api.resps[2].err # Nil
    /\ api.ret = <<>>

====
